---------------------------- MODULE Spec2Model ----------------------------
(***************************************************************************)
(* The claim-to-evidence pipeline of app/search.py:                        *)
(*   plan_search (extract -> review -> normalize ids)                      *)
(*   run_trusty_retrieval (_frame_queries, then per claim: _tavily_search, *)
(*   _score_and_merge, _judge_sources_for_claim, flat merge).              *)
(* The two external services (the chat-completion reasoning service and    *)
(* the Tavily search provider) are the environment: each call draws its    *)
(* outcome from a bounded set of responses.                                *)
(*                                                                         *)
(* Python values.  Identifiers, urls, notes and tags are TLA+ strings.     *)
(* Text that the code processes character by character (claim text) is a   *)
(* sequence of one-character strings.  A value read with dict.get is a     *)
(* record [t, v]: t = "none" (key absent / null), "str" (v the string),    *)
(* "int" (a truthy scalar that is not a string); T... values hold text, S... *)
(* values hold a TLA+ string.  Domains are sequences of labels:            *)
(* <<"cdc", "gov">> is cdc.gov.                                            *)
(***************************************************************************)
EXTENDS Integers, Sequences, FiniteSets, TLC

VARIABLES
    entry,            \* the public function the caller invoked
    pc,               \* position of the run
    err,              \* exception propagated to the caller ("" = none)
    openai_key,       \* OPENAI_API_KEY configured
    tavily_key,       \* TAVILY_API_KEY configured
    k,                \* caller-supplied cap of flat
    country,          \* plan_search / run_trusty_retrieval local
    claims,           \* plan_search local: claims as returned by the service
    plan,             \* value returned by plan_search
    raw,              \* _frame_queries local: id -> queries value
    queries_by_claim, \* value returned by _frame_queries
    ci,               \* index of the claim of the loop `for c in claims`
    qi,               \* index of the query of the loop `for q in qs`
    hits_all,         \* run_trusty_retrieval local: candidates of the claim
    keep_idx,         \* run_trusty_retrieval local: indices the judge returned
    note,             \* run_trusty_retrieval local: note the judge returned
    per_claim,        \* run_trusty_retrieval local
    merged_urls,      \* run_trusty_retrieval local
    flat,             \* run_trusty_retrieval local (before the final slice)
    bundle,           \* value returned by run_trusty_retrieval
    calls,            \* log of client constructions and external calls
    fault,            \* the calls that fail in the second of two compared runs
    run2,             \* second run of run_trusty_retrieval: its locals
    arg,              \* arguments of a helper that the caller invokes directly
    retval,           \* value such a helper returned
    cache,            \* reputation.py: the records of the cache file, by domain
    now,              \* reputation.py: the clock, in seconds
    prompts           \* the user text as placed in the prompts sent so far

cfg == <<entry, openai_key, tavily_key, k, fault>>
fqv == <<raw, queries_by_claim>>
rtv == <<ci, qi, hits_all, keep_idx, note, per_claim, merged_urls, flat, run2>>
ext == <<arg, retval, cache, now, prompts>>

vars == <<cfg, ext, pc, err, country, claims, plan, fqv, rtv, bundle, calls>>

-----------------------------------------------------------------------------
(* Program constants *)

MAX_CLAIMS == 6
MAX_QUERIES_PER_CLAIM == 3
QUERY_MAX_WORDS == 12
MAX_RESULTS_PER_QUERY == 6
MAX_MERGED_RESULTS == 30

(* Bounds of the model *)

MaxShortClaims == 2     \* longest mixed claim list a service response holds
MaxLongClaims == 7      \* longest uniform claim list a service response holds
MaxK == 2               \* largest k the caller passes
MaxAnalyzeCalls == 2    \* calls of analyze_domain in a row
MaxTextLen == 3         \* longest user text, in characters
PromptTextCap == 2      \* stands for the fixed cap on user text in a prompt

-----------------------------------------------------------------------------
(* Python values *)

TNone == [t |-> "none", v |-> <<>>]
TInt == [t |-> "int", v |-> <<>>]
TStr(s) == [t |-> "str", v |-> s]

SNone == [t |-> "none", v |-> ""]
SInt == [t |-> "int", v |-> ""]
SStr(s) == [t |-> "str", v |-> s]

\* bool(x) of a value read from a JSON object
TTruthy(x) == x.t = "int" \/ (x.t = "str" /\ x.v # <<>>)
STruthy(x) == x.t = "int" \/ (x.t = "str" /\ x.v # "")

NoId == "<None>"        \* c.get("id") of a claim without id

IsSpace(ch) == ch = " "

RECURSIVE LStrip(_)
LStrip(s) == IF s # <<>> /\ IsSpace(Head(s)) THEN LStrip(Tail(s)) ELSE s

RECURSIVE RStrip(_)
RStrip(s) ==
    IF s # <<>> /\ IsSpace(s[Len(s)]) THEN RStrip(SubSeq(s, 1, Len(s) - 1)) ELSE s

\* str.strip()
Strip(s) == RStrip(LStrip(s))

\* seq[:n] for n >= 0
Take(s, n) == SubSeq(s, 1, IF n < Len(s) THEN n ELSE Len(s))

\* str.lower() on the type tags the model uses
Lower(s) == CASE s = "Implied" -> "implied" [] OTHER -> s


-----------------------------------------------------------------------------
(* The reasoning service at the claims stage (extract and review calls).   *)
(* A response is                                                           *)
(*   kind = "error"   the call raised (network, timeout, API error),       *)
(*   kind = "badjson" the content is not JSON (json.loads raises),         *)
(*   kind = "json"    the content parsed; obj says whether the top-level   *)
(*                    value is a JSON object.                              *)
(* A claims value is [t, v]: t = "none" (absent, null or another falsy     *)
(* value), "list" (v the entries), "other" (a truthy value that is not a   *)
(* list: a string, a number, an object).  An entry is a JSON object        *)
(* (obj = TRUE) with the fields the code reads, or not an object.  The     *)
(* fields polarising, entities, numbers and time_refs are read with        *)
(* bool(...) / `or []`, cannot fail and feed nothing downstream: they are  *)
(* left out.                                                               *)

Entry(id, claim, type) == [obj |-> TRUE, id |-> id, claim |-> claim, type |-> type]
NonObjectEntry == [obj |-> FALSE, id |-> NoId, claim |-> TNone, type |-> SNone]

Entries ==
    { Entry(NoId, TStr(<<"x">>), SNone),
      Entry("A", TStr(<<"x">>), SNone),
      Entry("A", TStr(<<"y", " ">>), SStr("Implied")),
      Entry("C2", TStr(<<"x">>), SNone),
      Entry("", TStr(<<" ">>), SNone),
      Entry(NoId, TNone, SNone),
      Entry("A", TInt, SInt),
      NonObjectEntry }

\* n copies of e
Rep(n, e) == [i \in 1..n |-> e]

RECURSIVE SeqsUpTo(_, _)
SeqsUpTo(S, n) ==
    IF n = 0 THEN {<<>>}
    ELSE LET shorter == SeqsUpTo(S, n - 1)
         IN shorter \cup {Append(s, e) : s \in {t \in shorter : Len(t) = n - 1}, e \in S}

\* claim lists a response may hold when plan_search is the entry point: every
\* short list, and long lists of claims (one of them with a blank text)
RichClaimLists ==
    SeqsUpTo(Entries, MaxShortClaims)
    \cup {Rep(n, Entry(NoId, TStr(<<"x">>), SNone)) : n \in 3..MaxLongClaims}
    \cup {[i \in 1..n |-> IF i = 2 THEN Entry(NoId, TStr(<<" ">>), SNone)
                          ELSE Entry("A", TStr(<<"x">>), SNone)] : n \in {MaxLongClaims}}

\* claim lists a response may hold in a run of the whole pipeline
CompactClaimLists ==
    { <<Entry("A", TStr(<<"x">>), SNone)>>,
      <<Entry("A", TStr(<<"x">>), SNone), Entry(NoId, TStr(<<"x">>), SNone)>>,
      <<Entry("A", TStr(<<"x">>), SNone), Entry("A", TStr(<<"y", " ">>), SStr("Implied"))>>,
      <<Entry(NoId, TStr(<<"x">>), SNone), NonObjectEntry>> }

ClaimLists == IF entry = "plan_search" THEN RichClaimLists ELSE CompactClaimLists

ClaimsNone == [t |-> "none", v |-> <<>>]
ClaimsOther == [t |-> "other", v |-> <<>>]
ClaimsList(l) == [t |-> "list", v |-> l]

ClaimsValues == {ClaimsNone, ClaimsOther} \cup {ClaimsList(l) : l \in ClaimLists \ {<<>>}}

CountryValues == {SNone, SStr("India"), SStr("")}

RespError == [kind |-> "error", obj |-> FALSE, country |-> SNone, claims |-> ClaimsNone]
RespBadJson == [kind |-> "badjson", obj |-> FALSE, country |-> SNone, claims |-> ClaimsNone]
RespNonObject == [kind |-> "json", obj |-> FALSE, country |-> SNone, claims |-> ClaimsNone]
RespObject(cn, cl) == [kind |-> "json", obj |-> TRUE, country |-> cn, claims |-> cl]

ClaimsResponses ==
    {RespError, RespBadJson, RespNonObject}
    \cup {RespObject(cn, cl) : cn \in CountryValues, cl \in ClaimsValues}


-----------------------------------------------------------------------------
(* Call log *)

\* op: "client" (an OpenAI client was built), "extract", "claims_review", "frame",
\* "queries_review", "provider", "judge"; ci, qi: the claim and query of the
\* call (0 outside the loops); res: "ok" when the call returned content that
\* parsed as JSON, "failed" when it raised, timed out, answered with an error
\* status or with content that is no JSON
Call(op, c, q, res) == [op |-> op, ci |-> c, qi |-> q, res |-> res]

Res(r) == IF r.kind = "json" THEN "ok" ELSE "failed"

\* _openai(): the client is built only with a key
HasKey == openai_key

-----------------------------------------------------------------------------
(* 1) Claims: plan_search *)

\* line 210 / 226: the country of a parsed object, `dflt` when it is no string
CountryOf(cn, dflt) ==
    IF cn.t = "str" THEN (IF cn.v # "" THEN cn.v ELSE dflt) ELSE dflt

\* line 211 / 227: data.get("claims") or dflt
ClaimsOf(cl, dflt) == IF cl.t = "none" THEN dflt ELSE cl

\* truth value of the local `claims`
ClaimsTruthy(cl) == cl.t # "none"

\* the claim built at lines 235-243 from entry c at position i (1-based)
SyntheticId(i) == "C" \o ToString(i)

NormId(c, i) == IF c.id = NoId \/ c.id = "" THEN SyntheticId(i) ELSE c.id

NormType(c) == IF STruthy(c.type) THEN Lower(c.type.v) ELSE "explicit"

NormClaim(c, i) == [id |-> NormId(c, i), claim |-> Strip(c.claim.v), type |-> NormType(c)]

\* an entry on which the loop body of lines 233-243 raises
EntryRaises(c) ==
    \/ ~c.obj                                      \* c.get: AttributeError
    \/ /\ TTruthy(c.claim)
       /\ \/ c.claim.t # "str"                     \* c["claim"].strip()
          \/ (STruthy(c.type) /\ c.type.t # "str") \* (...).lower()

\* an entry the loop skips (line 234)
EntrySkipped(c) == c.obj /\ ~TTruthy(c.claim)

\* lines 232-243 on a list of entries
NormalizeList(l) ==
    LET cut == Take(l, MAX_CLAIMS)
        keep == {i \in 1..Len(cut) : ~EntrySkipped(cut[i])}
        F[i \in 0..Len(cut)] ==
            IF i = 0 THEN <<>>
            ELSE IF i \in keep THEN Append(F[i - 1], NormClaim(cut[i], i)) ELSE F[i - 1]
    IN F[Len(cut)]

\* lines 232-243 raise: `claims` is no list (slicing or c.get fails), or the
\* loop reaches an entry on which its body raises
NormalizeRaises(cl) ==
    \/ cl.t = "other"
    \/ cl.t = "list" /\ \E i \in 1..Len(Take(cl.v, MAX_CLAIMS)) : EntryRaises(cl.v[i])

NoPlan == [country |-> "", claims |-> <<>>]
NoFault == [ci |-> 0, op |-> "", kind |-> ""]
NoRun2 == [hits_all |-> <<>>, per_claim |-> <<>>, err |-> ""]
NoBundle == [per_claim |-> <<>>, flat |-> <<>>]

\* a faulty variant of ExtractClaims: a failed extract call falls back to one
\* claim made of the whole text
ExtractClaimsDefaultClaim(r) ==
    IF r.kind # "json" THEN ClaimsList(<<Entry(NoId, TStr(<<"x">>), SNone)>>)
    ELSE ClaimsOf(r.claims, ClaimsNone)

\* lines 205-211: the local `claims` after the extract call (data = {} when
\* the call or the parse failed)
ExtractClaims(r) ==
    IF r.kind # "json" THEN ClaimsNone ELSE ClaimsOf(r.claims, ClaimsNone)

\* line 193: oai = _openai()
PlanSearchOpenai ==
    /\ pc = "ps_openai"
    /\ IF HasKey
       THEN /\ pc' = "ps_extract"
            /\ calls' = Append(calls, Call("client", 0, 0, "ok"))
            /\ err' = err
       ELSE /\ pc' = "raised"
            /\ err' = "RuntimeError"
            /\ calls' = calls
    /\ UNCHANGED <<cfg, ext, fqv, rtv, country, claims, plan, bundle>>

\* line 203: the user message of the extract prompt is user_text as it is
ExtractPrompt(user_text) == [op |-> "extract", text |-> user_text]

\* lines 195-211: the extract call, its parse, country and claims; `arg` is
\* user_text when the caller's text is modelled
PlanSearchExtract ==
    /\ pc = "ps_extract"
    /\ prompts' = Append(prompts, ExtractPrompt(arg))
    /\ \E r \in ClaimsResponses :
          LET failed == r.kind # "json"     \* except branch: data = {}
          IN /\ calls' = Append(calls, Call("extract", 0, 0, Res(r)))
             /\ IF ~failed /\ ~r.obj
                THEN \* data.get on a value that is no dict
                     /\ pc' = "raised"
                     /\ err' = "AttributeError"
                     /\ UNCHANGED <<country, claims>>
                ELSE /\ country' = IF failed THEN "Unknown" ELSE CountryOf(r.country, "Unknown")
                     /\ claims' = ExtractClaims(r)
                     /\ pc' = IF ClaimsTruthy(claims') THEN "ps_review" ELSE "ps_normalize"
                     /\ err' = err
    /\ UNCHANGED <<cfg, arg, retval, cache, now, fqv, rtv, plan, bundle>>

\* a faulty variant of ReviewClaims: a failed review leaves no claims
ReviewClaimsDropsOnFailure(cl, r) ==
    IF r.kind # "json" \/ ~r.obj THEN ClaimsNone ELSE ClaimsOf(r.claims, cl)

\* lines 216-229: the local `claims` after the review call; any failure
\* inside the try block leaves it alone
ReviewClaims(cl, r) ==
    IF r.kind # "json" \/ ~r.obj THEN cl ELSE ClaimsOf(r.claims, cl)

\* lines 216-229: the local `country` after the review call
ReviewCountry(cn, r) ==
    IF r.kind # "json" \/ ~r.obj THEN cn ELSE CountryOf(r.country, cn)

\* lines 214-229: the review call
PlanSearchReview ==
    /\ pc = "ps_review"
    /\ \E r \in ClaimsResponses :
          /\ calls' = Append(calls, Call("claims_review", 0, 0, Res(r)))
          /\ country' = ReviewCountry(country, r)
          /\ claims' = ReviewClaims(claims, r)
    /\ pc' = "ps_normalize"
    /\ UNCHANGED <<cfg, ext, fqv, rtv, err, plan, bundle>>

\* lines 231-247: normalize ids and return the plan
PlanSearchNormalize ==
    /\ pc = "ps_normalize"
    /\ IF NormalizeRaises(claims)
       THEN /\ pc' = "raised"
            /\ err' = IF claims.t = "other" THEN "TypeError" ELSE "AttributeError"
            /\ plan' = plan
       ELSE /\ plan' = [country |-> country, claims |-> NormalizeList(claims.v)]
            /\ pc' = "ps_return"
            /\ err' = err
    /\ claims' = ClaimsNone
    /\ UNCHANGED <<cfg, ext, fqv, rtv, country, bundle, calls>>


-----------------------------------------------------------------------------
(* Domains and trust *)

\* the urls of the model and their registrable domain as tldextract gives it
\* (_domain, lines 94-101); anything else has no domain
Urls ==
    { "https://www.cdc.gov/a", "https://www.who.int/b", "https://www.who.int/c",
      "https://bbc.com/d", "https://pti.in/e", "https://me.blogspot.com/f",
      "not a url" }

_domain(url) ==
    CASE url = "https://www.cdc.gov/a" -> <<"cdc", "gov">>
      [] url = "https://www.who.int/b" -> <<"who", "int">>
      [] url = "https://www.who.int/c" -> <<"who", "int">>
      [] url = "https://bbc.com/d" -> <<"bbc", "com">>
      [] url = "https://pti.in/e" -> <<"pti", "in">>
      [] url = "https://me.blogspot.com/f" -> <<"blogspot", "com">>
      [] OTHER -> <<>>

\* d.endswith("." + suffix), suffix a sequence of labels
EndsWithDot(d, suf) ==
    /\ Len(d) > Len(suf)
    /\ SubSeq(d, Len(d) - Len(suf) + 1, Len(d)) = suf

\* label a ends with label b, character-wise, for a # b
ProperLabelSuffix == {<<"notwikipedia", "wikipedia">>}

\* d.endswith(x), x a domain of a list: the labels of x end d, the first of
\* them possibly as the tail of a longer label
EndsWith(d, x) ==
    /\ Len(d) >= Len(x)
    /\ LET tail == SubSeq(d, Len(d) - Len(x) + 1, Len(d))
       IN /\ Tail(tail) = Tail(x)
          /\ \/ Head(tail) = Head(x)
             \/ <<Head(tail), Head(x)>> \in ProperLabelSuffix

_is_gov(d) ==
    \/ EndsWithDot(d, <<"gov", "in">>)
    \/ EndsWithDot(d, <<"nic", "in">>)
    \/ EndsWithDot(d, <<"gov">>)

INDIA_TIER2 ==
    { <<"timesofindia", "com">>, <<"hindustantimes", "com">>, <<"indianexpress", "com">>,
      <<"thehindu", "com">>, <<"livemint", "com">>, <<"business-standard", "com">>,
      <<"ndtv", "com">>, <<"pti", "in">>, <<"economictimes", "com">>,
      <<"theprint", "in">>, <<"scroll", "in">>, <<"moneycontrol", "com">>,
      <<"altnews", "in">>, <<"boomlive", "in">>, <<"factly", "in">>,
      <<"pib", "gov", "in">>, <<"data", "gov", "in">>, <<"ncrb", "gov", "in">>,
      <<"mha", "gov", "in">>, <<"prsindia", "org">> }

GLOBAL_TIER1 ==
    { <<"reuters", "com">>, <<"apnews", "com">>, <<"bbc", "com">>, <<"bbc", "co", "uk">>,
      <<"theguardian", "com">>, <<"nytimes", "com">>, <<"wsj", "com">>, <<"ft", "com">>,
      <<"washingtonpost", "com">>, <<"aljazeera", "com">> }

INTL_ORG_ACAD ==
    { <<"who", "int">>, <<"un", "org">>, <<"worldbank", "org">>, <<"imf", "org">>,
      <<"oecd", "org">>, <<"journals", "plos", "org">>, <<"nature", "com">>,
      <<"science", "org">>, <<"thelancet", "com">> }

FACTCHECK_GLOBAL ==
    { <<"snopes", "com">>, <<"politifact", "com">>, <<"factcheck", "org">>,
      <<"fullfact", "org">> }

WEAK_OR_OPEN ==
    { <<"wikipedia", "org">>, <<"medium", "com">>, <<"quora", "com">>, <<"reddit", "com">>,
      <<"blogspot", "com">>, <<"wordpress", "com">>, <<"substack", "com">>,
      <<"stackexchange", "com">> }

\* country.lower() == "india" on the countries of the model
IsIndia(c) == c \in {"India", "india", "INDIA"}

\* str.lower() on the labels of the model
LowerLabel(l) ==
    CASE l = "CDC" -> "cdc" [] l = "GOV" -> "gov" [] l = "BBC" -> "bbc"
      [] l = "COM" -> "com" [] l = "Who" -> "who" [] OTHER -> l

\* line 134: d.lower()
LowerDomain(d) == [i \in 1..Len(d) |-> LowerLabel(d[i])]

\* a faulty variant of TrustOfLower: the lists are consulted before the
\* government suffixes
TrustOfLowerListsFirst(d, c) ==
    IF IsIndia(c) /\ d \in INDIA_TIER2
    THEN <<2, "major Indian outlet / fact-check / official portal">>
    ELSE IF d \in INTL_ORG_ACAD
    THEN <<1, "international org / academic">>
    ELSE IF d \in GLOBAL_TIER1 \/ d \in FACTCHECK_GLOBAL
    THEN <<1, "reputable global media / fact-checker">>
    ELSE IF \E x \in WEAK_OR_OPEN : EndsWith(d, x) \/ d = x
    THEN <<0, "low-signal/openly editable/community">>
    ELSE IF _is_gov(d) \/ EndsWithDot(d, <<"parliament", "in">>)
                       \/ EndsWithDot(d, <<"supremecourt", "nic", "in">>)
    THEN <<3, "official/government or judiciary">>
    ELSE <<0, "unvetted/other">>

\* lines 135-147 on the lower-case domain
TrustOfLower(d, c) ==
    IF _is_gov(d) \/ EndsWithDot(d, <<"parliament", "in">>)
                  \/ EndsWithDot(d, <<"supremecourt", "nic", "in">>)
    THEN <<3, "official/government or judiciary">>
    ELSE IF IsIndia(c) /\ d \in INDIA_TIER2
    THEN <<2, "major Indian outlet / fact-check / official portal">>
    ELSE IF d \in INTL_ORG_ACAD
    THEN <<1, "international org / academic">>
    ELSE IF d \in GLOBAL_TIER1 \/ d \in FACTCHECK_GLOBAL
    THEN <<1, "reputable global media / fact-checker">>
    ELSE IF \E x \in WEAK_OR_OPEN : EndsWith(d, x) \/ d = x
    THEN <<0, "low-signal/openly editable/community">>
    ELSE <<0, "unvetted/other">>

\* lines 133-147
_trust_score(d, c) == TrustOfLower(LowerDomain(d), c)

\* the labels of the model's domains in code-point order: Python compares
\* the domain strings character by character, and no label of the model holds
\* a character below "."
LabelOrder == <<"bbc", "blogspot", "cdc", "com", "gov", "in", "int", "pti", "who">>

LabelRank(l) == CHOOSE i \in 1..Len(LabelOrder) : LabelOrder[i] = l

\* a < b for two domain strings
RECURSIVE DomainLess(_, _)
DomainLess(a, b) ==
    IF b = <<>> THEN FALSE
    ELSE IF a = <<>> THEN TRUE
    ELSE IF Head(a) = Head(b) THEN DomainLess(Tail(a), Tail(b))
    ELSE LabelRank(Head(a)) < LabelRank(Head(b))


-----------------------------------------------------------------------------
(* 2) Queries: _frame_queries *)

\* A queries value is [t, v]: "none" (absent, null, []), "list" (v the
\* elements), "int" (a truthy number).  An element is a T-value.
QNone == [t |-> "none", v |-> <<>>]
QInt == [t |-> "int", v |-> <<>>]
QList(l) == [t |-> "list", v |-> l]

FEntry(id, qv) == [obj |-> TRUE, id |-> id, queries |-> qv]
NonObjectFEntry == [obj |-> FALSE, id |-> NoId, queries |-> QNone]

FNone == [t |-> "none", v |-> <<>>]
FOther == [t |-> "other", v |-> <<>>]
FList(l) == [t |-> "list", v |-> l]

FrameError == [kind |-> "error", obj |-> FALSE, claims |-> FNone]
FrameBadJson == [kind |-> "badjson", obj |-> FALSE, claims |-> FNone]
FrameNonObject == [kind |-> "json", obj |-> FALSE, claims |-> FNone]
FrameObject(cl) == [kind |-> "json", obj |-> TRUE, claims |-> cl]

\* character classes of re and str
IsWs(ch) == ch \in {" ", "\t", "\n"}
IsPrintable(ch) == ch \notin {"\t", "\n", "~~"}    \* "~~" stands for a non-ASCII character

RECURSIVE LStripWs(_)
LStripWs(s) == IF s # <<>> /\ IsWs(Head(s)) THEN LStripWs(Tail(s)) ELSE s

RECURSIVE RStripWs(_)
RStripWs(s) ==
    IF s # <<>> /\ IsWs(s[Len(s)]) THEN RStripWs(SubSeq(s, 1, Len(s) - 1)) ELSE s

\* str.strip() of a query
StripWs(s) == RStripWs(LStripWs(s))

\* re.sub(r"\s+", " ", s)
RECURSIVE CollapseWs(_)
CollapseWs(s) ==
    IF s = <<>> THEN <<>>
    ELSE IF IsWs(Head(s))
    THEN <<" ">> \o CollapseWs(LStripWs(Tail(s)))
    ELSE <<Head(s)>> \o CollapseWs(Tail(s))

\* re.sub(r"[^\x20-\x7E]+", " ", s)
RECURSIVE ReplaceNonPrintable(_)
ReplaceNonPrintable(s) ==
    IF s = <<>> THEN <<>>
    ELSE IF ~IsPrintable(Head(s))
    THEN LET rest == Tail(s)
             n == IF \E i \in 1..Len(rest) : IsPrintable(rest[i])
                  THEN (CHOOSE i \in 1..Len(rest) :
                            IsPrintable(rest[i]) /\ \A j \in 1..(i - 1) : ~IsPrintable(rest[j])) - 1
                  ELSE Len(rest)
         IN <<" ">> \o ReplaceNonPrintable(SubSeq(rest, n + 1, Len(rest)))
    ELSE <<Head(s)>> \o ReplaceNonPrintable(Tail(s))

\* str.split(): the words of s
RECURSIVE Split(_)
Split(s) ==
    LET t == LStripWs(s)
    IN IF t = <<>> THEN <<>>
       ELSE LET n == IF \E i \in 1..Len(t) : IsWs(t[i])
                     THEN (CHOOSE i \in 1..Len(t) :
                               IsWs(t[i]) /\ \A j \in 1..(i - 1) : ~IsWs(t[j])) - 1
                     ELSE Len(t)
            IN <<SubSeq(t, 1, n)>> \o Split(SubSeq(t, n + 1, Len(t)))

\* " ".join(words)
RECURSIVE Join(_)
Join(ws) ==
    IF ws = <<>> THEN <<>>
    ELSE IF Len(ws) = 1 THEN ws[1]
    ELSE ws[1] \o <<" ">> \o Join(Tail(ws))

\* lines 78-82
_shorten(text, max_words) ==
    LET t1 == StripWs(CollapseWs(text))
        t2 == ReplaceNonPrintable(t1)
        words == Split(t2)
    IN IF Len(words) > max_words THEN Join(Take(words, max_words)) ELSE t2

LowerCh(ch) == CASE ch = "A" -> "a" [] ch = "B" -> "b" [] OTHER -> ch
LowerSeq(s) == [i \in 1..Len(s) |-> LowerCh(s[i])]

\* a faulty variant of _dedupe: the key keeps the case
_dedupeCaseSensitive(seq) ==
    LET key(i) == StripWs(seq[i])
        F[i \in 0..Len(seq)] ==
            IF i = 0 THEN <<>>
            ELSE IF key(i) # <<>> /\ \A j \in 1..(i - 1) : key(j) # key(i)
            THEN Append(F[i - 1], StripWs(seq[i]))
            ELSE F[i - 1]
    IN F[Len(seq)]

\* lines 84-92
_dedupe(seq) ==
    LET key(i) == LowerSeq(StripWs(seq[i]))
        F[i \in 0..Len(seq)] ==
            IF i = 0 THEN <<>>
            ELSE IF key(i) # <<>> /\ \A j \in 1..(i - 1) : key(j) # key(i)
            THEN Append(F[i - 1], StripWs(seq[i]))
            ELSE F[i - 1]
    IN F[Len(seq)]

\* lines 269 / 283: the dict built from the framed claims; a later entry
\* with the same id replaces an earlier one
RawOf(l) ==
    LET ids == {l[i].id : i \in 1..Len(l)}
        last(id) == CHOOSE i \in 1..Len(l) :
                        l[i].id = id /\ \A j \in (i + 1)..Len(l) : l[j].id # id
    IN [id \in ids |-> l[last(id)].queries]

\* lines 269 / 283 raise: data is no object, claims is a truthy value that is
\* no list, or an entry is no object
RawRaises(r) ==
    \/ ~r.obj
    \/ r.claims.t = "other"
    \/ r.claims.t = "list" /\ \E i \in 1..Len(r.claims.v) : ~r.claims.v[i].obj

RawFrom(r) == IF r.claims.t = "list" THEN RawOf(r.claims.v) ELSE <<>>

\* raw.get(cid, []) or []
RawGet(rw, cid) == IF cid \in DOMAIN rw THEN rw[cid] ELSE QNone

\* line 291: the kept elements, shortened
RECURSIVE ShortenAll(_)
ShortenAll(l) ==
    IF l = <<>> THEN <<>>
    ELSE IF Head(l).t = "str" /\ StripWs(Head(l).v) # <<>>
    THEN <<_shorten(Head(l).v, QUERY_MAX_WORDS)>> \o ShortenAll(Tail(l))
    ELSE ShortenAll(Tail(l))

\* lines 291-292 for one claim
QueriesFor(rw, cid) ==
    Take(_dedupe(ShortenAll(RawGet(rw, cid).v)), MAX_QUERIES_PER_CLAIM)

\* lines 288-293
NormalizeQueries(rw, cl) ==
    [id \in {cl[i].id : i \in 1..Len(cl)} |-> QueriesFor(rw, id)]

\* line 291 raises: iterating a number
NormalizeQueriesRaises(rw, cl) ==
    \E i \in 1..Len(cl) : RawGet(rw, cl[i].id).t = "int"


\* The queries of the model
Q1 == <<"a">>
Q2 == <<"b", " ", "c">>

\* queries values the frame and review passes return for the first and for
\* the other claims they answer for
RichFramePairs ==
    { <<QList(<<TStr(Q1)>>), QList(<<TStr(Q1)>>)>>,
      <<QList(<<TStr(Q1), TStr(Q2)>>), QList(<<TStr(Q2)>>)>>,
      <<QInt, QList(<<TStr(Q1)>>)>> }

\* a query of one word more than QUERY_MAX_WORDS
LongQuery == Join([i \in 1..(QUERY_MAX_WORDS + 1) |-> IF i % 2 = 1 THEN <<"a">> ELSE <<"b">>])

\* more queries than MAX_QUERIES_PER_CLAIM, with a long query, elements that
\* are no strings, blank and non-ASCII text and duplicates up to case
ManyQueries ==
    <<TStr(LongQuery), TInt, TStr(<<" ">>), TStr(Q1), TStr(<<"A">>), TStr(Q2),
      TStr(<<"~~">>), TStr(<<"b">>)>>

FewQueries == <<TStr(<<"A">>), TStr(<<" ", "a", "\t">>), TStr(<<"a", "~~", "b">>)>>

\* queries values in a run that starts at plan_search
CompactFramePairs ==
    { <<QList(<<TStr(Q1), TInt, TStr(<<" ">>), TStr(<<"A">>)>>), QList(<<TStr(Q2)>>)>>,
      <<QList(ManyQueries), QNone>>,
      <<QInt, QNone>> }

\* queries values when _frame_queries is the entry point
DirectFramePairs ==
    { <<QList(ManyQueries), QList(FewQueries)>>,
      <<QList(FewQueries), QNone>>,
      <<QList(<<TStr(Q1)>>), QList(ManyQueries)>>,
      <<QList(<<TStr(Q2), TStr(<<"B">>), TStr(<<"b">>)>>), QList(<<TStr(LongQuery)>>)>>,
      <<QNone, QList(<<TStr(<<"\n">>), TStr(Q2)>>)>>,
      <<QInt, QList(<<TStr(Q1)>>)>> }

FramePairs ==
    IF entry = "run_trusty_retrieval" THEN RichFramePairs
    ELSE IF entry = "_frame_queries" THEN DirectFramePairs
    ELSE CompactFramePairs

\* the claim ids the service answers for
FramedIds == {"A", "B", "C2"}

\* the entries of cl with an id of ids, in order
RECURSIVE SelectIds(_, _)
SelectIds(cl, ids) ==
    IF cl = <<>> THEN <<>>
    ELSE IF Head(cl).id \in ids THEN <<Head(cl)>> \o SelectIds(Tail(cl), ids)
    ELSE SelectIds(Tail(cl), ids)

\* a response that answers for the claims of cl with an id of ids
FramedFor(cl, ids, pair) ==
    LET sel == SelectIds(cl, ids)
    IN [i \in 1..Len(sel) |-> FEntry(sel[i].id, IF i = 1 THEN pair[1] ELSE pair[2])]

FrameResponses(cl) ==
    {FrameError, FrameBadJson, FrameNonObject, FrameObject(FOther),
     FrameObject(FList(<<NonObjectFEntry>>)), FrameObject(FList(<<FEntry("Z", QList(<<TStr(Q1)>>))>>))}
    \cup {FrameObject(IF FramedFor(cl, ids, pair) = <<>> THEN FNone
                      ELSE FList(FramedFor(cl, ids, pair))) :
              ids \in {FramedIds, {"A"}}, pair \in FramePairs}

\* line 253: oai = _openai()
FrameOpenai ==
    /\ pc = "fq_openai"
    /\ IF HasKey
       THEN /\ pc' = "fq_frame"
            /\ calls' = Append(calls, Call("client", 0, 0, "ok"))
            /\ err' = err
       ELSE /\ pc' = "raised"
            /\ err' = "RuntimeError"
            /\ calls' = calls
    /\ UNCHANGED <<cfg, ext, fqv, rtv, country, claims, plan, bundle>>

\* lines 254-269: the frame call, its parse and the dict `raw`
FrameCall ==
    /\ pc = "fq_frame"
    /\ \E r \in FrameResponses(plan.claims) :
          LET failed == r.kind # "json"     \* except branch: data = {}
          IN /\ calls' = Append(calls, Call("frame", 0, 0, Res(r)))
             /\ IF ~failed /\ RawRaises(r)
                THEN /\ pc' = "raised"
                     /\ err' = IF r.claims.t = "other" THEN "TypeError" ELSE "AttributeError"
                     /\ raw' = raw
                ELSE /\ raw' = IF failed THEN <<>> ELSE RawFrom(r)
                     /\ pc' = IF DOMAIN raw' # {} THEN "fq_review" ELSE "fq_normalize"
                     /\ err' = err
    /\ UNCHANGED <<cfg, ext, rtv, country, claims, plan, queries_by_claim, bundle>>

\* a faulty variant of ReviewRaw: a failed review leaves no queries
ReviewRawDropsOnFailure(rw, r) ==
    IF r.kind # "json" \/ RawRaises(r) THEN <<>> ELSE RawFrom(r)

\* lines 272-285: `raw` after the review call; any failure inside the try
\* block leaves it alone
ReviewRaw(rw, r) ==
    IF r.kind # "json" \/ RawRaises(r) THEN rw ELSE RawFrom(r)

\* lines 271-285: the review call
FrameReview ==
    /\ pc = "fq_review"
    /\ \E r \in FrameResponses(plan.claims) :
          /\ calls' = Append(calls, Call("queries_review", 0, 0, Res(r)))
          /\ raw' = ReviewRaw(raw, r)
    /\ pc' = "fq_normalize"
    /\ UNCHANGED <<cfg, ext, rtv, err, country, claims, plan, queries_by_claim, bundle>>

\* lines 287-296 and the return: to the caller of _frame_queries, or to
\* run_trusty_retrieval, which goes on with lines 399-401
FrameNormalize ==
    /\ pc = "fq_normalize"
    /\ IF NormalizeQueriesRaises(raw, plan.claims)
       THEN /\ pc' = "raised"
            /\ err' = "TypeError"
            /\ queries_by_claim' = queries_by_claim
       ELSE /\ queries_by_claim' = NormalizeQueries(raw, plan.claims)
            /\ pc' = IF entry = "_frame_queries" THEN "done" ELSE "rt_loop"
            /\ err' = err
    /\ raw' = <<>>
    /\ ci' = 1
    /\ qi' = 1
    /\ hits_all' = <<>>
    /\ keep_idx' = <<>>
    /\ note' = ""
    /\ per_claim' = <<>>
    /\ merged_urls' = {}
    /\ flat' = <<>>
    /\ run2' = NoRun2
    /\ UNCHANGED <<cfg, ext, country, claims, plan, bundle, calls>>


-----------------------------------------------------------------------------
(* 3) Retrieval: _tavily_search, _score_and_merge *)

\* An item of the provider's "results": an object with title, url and
\* content, or no object.  The titles and contents of the model are shorter
\* than the slices [:220] and [:700], which leave them as they are.
Item(title, url) == [obj |-> TRUE, title |-> title, url |-> url]
NonObjectItem == [obj |-> FALSE, title |-> "", url |-> SNone]

RNone == [t |-> "none", v |-> <<>>]
ROther == [t |-> "other", v |-> <<>>]
RList(l) == [t |-> "list", v |-> l]

ProvError == [kind |-> "error", obj |-> FALSE, results |-> RNone]       \* requests.post raised
ProvHttp == [kind |-> "http", obj |-> FALSE, results |-> RNone]         \* status_code != 200
ProvBadJson == [kind |-> "badjson", obj |-> FALSE, results |-> RNone]   \* r.json() raised
ProvNonObject == [kind |-> "json", obj |-> FALSE, results |-> RNone]    \* body is no object
ProvBody(rs) == [kind |-> "json", obj |-> TRUE, results |-> rs]

Gov == "https://www.cdc.gov/a"
WhoB == "https://www.who.int/b"
WhoC == "https://www.who.int/c"
Bbc == "https://bbc.com/d"
Pti == "https://pti.in/e"
Blog == "https://me.blogspot.com/f"

\* a body of one result more than MAX_MERGED_RESULTS: the provider is asked
\* for MAX_RESULTS_PER_QUERY results, and its answer is taken as it comes
BigBody ==
    [i \in 1..(MAX_MERGED_RESULTS + 1) |->
        IF i % 2 = 1 THEN Item("t1", SStr(Bbc)) ELSE Item("t2", SStr(Gov))]

RichBodies ==
    { <<Item("t1", SStr(Gov))>>,
      BigBody,
      <<Item("t1", SStr(WhoB)), Item("t1", SStr(Bbc))>>,
      <<Item("t1", SStr(Blog)), Item("t1", SStr(WhoC)), Item("t2", SStr(WhoB))>>,
      <<Item("t1", SStr(Pti)), Item("t1", SStr(Blog))>>,
      <<Item("t1", SNone), Item("t1", SStr("not a url")), Item("t2", SStr(Gov)),
        Item("t1", SStr(""))>> }

CompactBodies ==
    { <<Item("t1", SStr(Blog)), Item("t2", SStr(Gov)), Item("t1", SNone)>> }

ProviderResponses ==
    IF entry = "run_trusty_retrieval"
    THEN {ProvError, ProvHttp, ProvBadJson, ProvNonObject, ProvBody(RNone), ProvBody(ROther),
          ProvBody(RList(<<NonObjectItem>>))}
         \cup {ProvBody(RList(b)) : b \in RichBodies}
    ELSE {ProvError, ProvNonObject} \cup {ProvBody(RList(b)) : b \in CompactBodies}

\* lines 330-335 raise: the body is no object, results is a truthy value
\* that is no list, or an item is no object
TavilyRaises(r) ==
    /\ r.kind = "json"
    /\ \/ ~r.obj
       \/ r.results.t = "other"
       \/ r.results.t = "list" /\ \E i \in 1..Len(r.results.v) : ~r.results.v[i].obj

\* lines 331-335: the normalized record of one item
TavilyRecord(it) ==
    [title |-> it.title, link |-> IF STruthy(it.url) THEN it.url.v ELSE "", snippet |-> ""]

\* lines 301-336: the records _tavily_search returns for response r
_tavily_search(r) ==
    IF ~tavily_key \/ r.kind # "json" \/ r.results.t # "list" THEN <<>>
    ELSE [i \in 1..Len(r.results.v) |-> TavilyRecord(r.results.v[i])]

\* lines 343-348: the scored hit of a record
ScoredHit(h, c) ==
    LET d == _domain(h.link)
        ts == _trust_score(d, c)
    IN [title |-> h.title, link |-> h.link, snippet |-> h.snippet,
        domain |-> d, trust |-> ts[1], trust_reason |-> ts[2]]

\* lines 338-350
RECURSIVE _score_and_merge(_, _)
_score_and_merge(hits, c) ==
    IF hits = <<>> THEN <<>>
    ELSE IF Head(hits).link = "" THEN _score_and_merge(Tail(hits), c)
    ELSE <<ScoredHit(Head(hits), c)>> \o _score_and_merge(Tail(hits), c)

-----------------------------------------------------------------------------
(* Source judging: _judge_sources_for_claim *)

\* An element of "keep": an integer, or a value that is no integer
KInt(n) == [int |-> TRUE, n |-> n]
KStr == [int |-> FALSE, n |-> 0]

KNone == [t |-> "none", v |-> <<>>]
KOther == [t |-> "other", v |-> <<>>]
KList(l) == [t |-> "list", v |-> l]

JudgeError == [kind |-> "error", obj |-> FALSE, keep |-> KNone, note |-> SNone]
JudgeBadJson == [kind |-> "badjson", obj |-> FALSE, keep |-> KNone, note |-> SNone]
JudgeNonObject == [kind |-> "json", obj |-> FALSE, keep |-> KNone, note |-> SNone]
JudgeObject(kp, nt) == [kind |-> "json", obj |-> TRUE, keep |-> kp, note |-> nt]

RichKeeps ==
    { <<KInt(0)>>, <<KInt(1), KInt(0)>>, <<KInt(0), KInt(2), KInt(0)>>,
      <<KInt(-1), KInt(5), KInt(1)>>, <<KStr, KInt(3), KInt(2)>> }

CompactKeeps == { <<KInt(1), KInt(0), KInt(7)>> }

JudgeResponses ==
    IF entry = "run_trusty_retrieval"
    THEN {JudgeError, JudgeBadJson, JudgeNonObject,
          JudgeObject(KNone, SNone), JudgeObject(KOther, SStr("ok")),
          JudgeObject(KList(<<KInt(0)>>), SInt), JudgeObject(KList(<<KInt(0)>>), SStr(" "))}
         \cup {JudgeObject(KList(l), SStr("ok")) : l \in RichKeeps}
    ELSE {JudgeError, JudgeNonObject} \cup {JudgeObject(KList(l), SStr("ok")) : l \in CompactKeeps}

\* str.strip() on the notes of the model
StripNote(s) == CASE s = " " -> "" [] OTHER -> s

\* lines 382-384 raise inside the try block
JudgeParseRaises(r) ==
    \/ r.kind # "json"
    \/ ~r.obj
    \/ r.keep.t = "other"            \* iterating a number
    \/ r.note.t = "int"              \* (...).strip() on a number

\* line 383
RECURSIVE KeepInts(_)
KeepInts(l) ==
    IF l = <<>> THEN <<>>
    ELSE IF Head(l).int THEN <<Head(l).n>> \o KeepInts(Tail(l))
    ELSE KeepInts(Tail(l))

\* a faulty variant of StrongIdxs: trust > 1
StrongIdxsAboveOne(cands) ==
    LET F[i \in 0..Len(cands)] ==
            IF i = 0 THEN <<>>
            ELSE IF cands[i].trust > 1 THEN Append(F[i - 1], i - 1) ELSE F[i - 1]
    IN F[Len(cands)]

\* line 389: the indices (0-based) of the candidates of trust >= 1
StrongIdxs(cands) ==
    LET F[i \in 0..Len(cands)] ==
            IF i = 0 THEN <<>>
            ELSE IF cands[i].trust >= 1 THEN Append(F[i - 1], i - 1) ELSE F[i - 1]
    IN F[Len(cands)]

\* lines 386-390
JudgeFallback(cands) == <<Take(StrongIdxs(cands), 3), "fallback: kept highest trust">>

\* lines 369-390: the value returned once the client exists, for response r
JudgeResult(cands, r) ==
    IF JudgeParseRaises(r) THEN JudgeFallback(cands)
    ELSE <<KeepInts(r.keep.v), IF r.note.t = "str" THEN StripNote(r.note.v) ELSE "">>


-----------------------------------------------------------------------------
(* Orchestration: run_trusty_retrieval *)

\* a faulty variant of Kept: a negative index counts from the end of the list
KeptWrapping(cands, idx) ==
    LET n == Len(cands)
        F[j \in 0..Len(idx)] ==
            IF j = 0 THEN <<>>
            ELSE IF -n <= idx[j] /\ idx[j] < n
            THEN Append(F[j - 1], cands[((idx[j] + n) % n) + 1])
            ELSE F[j - 1]
    IN F[Len(idx)]

\* line 417: the candidates at the indices (0-based) that are in range
RECURSIVE Kept(_, _)
Kept(cands, idx) ==
    IF idx = <<>> THEN <<>>
    ELSE IF 0 <= Head(idx) /\ Head(idx) < Len(cands)
    THEN <<cands[Head(idx) + 1]>> \o Kept(cands, Tail(idx))
    ELSE Kept(cands, Tail(idx))

\* a faulty variant of EntryNote: the note of the judge as it is
EntryNoteAsJudged(kept, nt) == nt

\* line 424
EntryNote(kept, nt) ==
    IF kept # <<>> THEN nt ELSE (IF nt # "" THEN nt ELSE "no trustable source found")

\* a faulty variant of IsNewUrl: the url set is not consulted
IsNewUrlNoDedup(s, urls) == s.link # ""

\* line 430: whether source s is appended to flat, given the urls merged so far
IsNewUrl(s, urls) == s.link # "" /\ s.link \notin urls

\* lines 428-432: <<merged_urls, flat>> after the kept sources of one claim
RECURSIVE AddKept(_, _, _)
AddKept(kept, urls, fl) ==
    IF kept = <<>> THEN <<urls, fl>>
    ELSE IF IsNewUrl(Head(kept), urls)
    THEN AddKept(Tail(kept), urls \cup {Head(kept).link}, Append(fl, Head(kept)))
    ELSE AddKept(Tail(kept), urls, fl)

\* a faulty variant of KeyLess: trust ascending
KeyLessTrustAscending(a, b) ==
    \/ a.trust < b.trust
    \/ a.trust = b.trust /\ DomainLess(a.domain, b.domain)

\* line 435: the sort key (-trust, domain) of a is smaller than that of b
KeyLess(a, b) ==
    \/ a.trust > b.trust
    \/ a.trust = b.trust /\ DomainLess(a.domain, b.domain)

\* a faulty variant of InsertSorted: x goes before the elements of equal key
\* (a sort that is not stable)
InsertSortedBeforeTies(x, s) ==
    LET pos == IF \E i \in 1..Len(s) : ~KeyLess(s[i], x)
               THEN CHOOSE i \in 1..Len(s) :
                        ~KeyLess(s[i], x) /\ \A j \in 1..(i - 1) : KeyLess(s[j], x)
               ELSE Len(s) + 1
    IN SubSeq(s, 1, pos - 1) \o <<x>> \o SubSeq(s, pos, Len(s))

\* x put into the sorted list s behind every element whose key is not larger
InsertSorted(x, s) ==
    LET pos == IF \E i \in 1..Len(s) : KeyLess(x, s[i])
               THEN CHOOSE i \in 1..Len(s) :
                        KeyLess(x, s[i]) /\ \A j \in 1..(i - 1) : ~KeyLess(x, s[j])
               ELSE Len(s) + 1
    IN SubSeq(s, 1, pos - 1) \o <<x>> \o SubSeq(s, pos, Len(s))

\* line 435: list.sort is stable
SortFlat(s) ==
    LET F[i \in 0..Len(s)] == IF i = 0 THEN <<>> ELSE InsertSorted(s[i], F[i - 1])
    IN F[Len(s)]

\* a faulty variant of NoCandidates: the check is missing
NoCandidatesUnchecked(cands) == FALSE

\* lines 427-435 on a sequence of kept sources: url dedup, first occurrence
\* wins, then the sort
FlatMerge(srcs) == SortFlat(AddKept(srcs, {}, <<>>)[2])

\* line 354: the judge answers without the service
NoCandidates(cands) == cands = <<>>

\* the queries of the claim at index i
QueriesOfClaim(i) ==
    LET cid == plan.claims[i].id
    IN IF cid \in DOMAIN queries_by_claim THEN queries_by_claim[cid] ELSE <<>>

\* lines 394-395, then line 397 calls _frame_queries
RunEntry ==
    /\ pc = "rt_entry"
    /\ country' = IF plan.country = "" THEN "Unknown" ELSE plan.country
    /\ pc' = "fq_openai"
    /\ UNCHANGED <<cfg, ext, fqv, rtv, err, claims, plan, bundle, calls>>

\* a faulty variant of HitsBefore: the hits of the claim before stay
HitsBeforeCarriedOver(q, hits) == hits

\* line 408: hits_all is empty before the first query of a claim
HitsBefore(q, hits) == IF q = 1 THEN <<>> ELSE hits

\* the response the second run gets where the first run gets r: the same,
\* but a failure for the calls named by fault
ProviderResponse2(r) ==
    IF fault.ci = ci /\ fault.op = "provider"
    THEN (IF fault.kind = "error" THEN ProvError ELSE ProvHttp)
    ELSE r

JudgeResponse2(r) ==
    IF fault.ci = ci /\ fault.op = "judge"
    THEN (IF fault.kind = "error" THEN JudgeError ELSE JudgeBadJson)
    ELSE r

\* lines 410-411 of the second run
Fetch2(r) ==
    IF run2.err # "" THEN run2
    ELSE IF TavilyRaises(r) THEN [run2 EXCEPT !.err = "AttributeError"]
    ELSE [run2 EXCEPT !.hits_all =
              HitsBefore(qi, run2.hits_all) \o _score_and_merge(_tavily_search(r), country)]

\* a faulty variant of NextQuery: a failed request is made again
NextQueryRetrying(q, failed) == IF failed THEN q ELSE q + 1

\* line 409: the for loop over the queries goes on, whatever the request gave
NextQuery(q, failed) == q + 1

\* lines 409-412: one query of the current claim: _tavily_search, then
\* _score_and_merge
Fetch ==
    /\ pc = "rt_loop"
    /\ ci <= Len(plan.claims)
    /\ qi <= Len(QueriesOfClaim(ci))
    /\ LET before == HitsBefore(qi, hits_all)
       IN IF ~tavily_key
          THEN \* line 303: no request is made
               /\ hits_all' = before
               /\ run2' = [run2 EXCEPT !.hits_all = HitsBefore(qi, run2.hits_all)]
               /\ qi' = NextQuery(qi, FALSE)
               /\ UNCHANGED <<pc, err, calls>>
          ELSE \E r \in ProviderResponses :
                  /\ calls' = Append(calls, Call("provider", ci, qi, Res(r)))
                  /\ IF TavilyRaises(r)
                     THEN /\ pc' = "raised"
                          /\ err' = IF r.results.t = "other" THEN "TypeError"
                                    ELSE "AttributeError"
                          /\ UNCHANGED <<hits_all, qi, run2>>
                     ELSE /\ hits_all' = before \o _score_and_merge(_tavily_search(r), country)
                          /\ run2' = Fetch2(ProviderResponse2(r))
                          /\ qi' = NextQuery(qi, Res(r) = "failed")
                          /\ UNCHANGED <<pc, err>>
    /\ UNCHANGED <<cfg, ext, fqv, ci, keep_idx, note, per_claim, merged_urls, flat,
                   country, claims, plan, bundle>>

\* a faulty variant of AppendEntry: the entry goes in front
AppendEntryInFront(pcl, e) == <<e>> \o pcl

\* line 420: per_claim.append
AppendEntry(pcl, e) == Append(pcl, e)

\* lines 420-425: the per-claim entry of claim c
ClaimEntry(c, kept, nt) ==
    [id |-> c.id, claim |-> c.claim, sources |-> kept, note |-> EntryNote(kept, nt)]

\* a faulty variant of Candidates: the list is handed over as it is
CandidatesUncut(hits) == hits

\* line 414: the slice before the judge
Candidates(hits) == Take(hits, MAX_MERGED_RESULTS)

\* lines 414-425 of the second run
Judge2(r) ==
    IF run2.err # "" THEN run2
    ELSE LET cands == Candidates(HitsBefore(qi, run2.hits_all))
             res == IF NoCandidates(cands) THEN <<<<>>, "no candidates">>
                    ELSE JudgeResult(cands, r)
         IN IF ~NoCandidates(cands) /\ ~HasKey
            THEN [run2 EXCEPT !.err = "RuntimeError"]
            ELSE [run2 EXCEPT
                     !.hits_all = cands,
                     !.per_claim = AppendEntry(run2.per_claim,
                         ClaimEntry(plan.claims[ci], Kept(cands, res[1]), res[2]))]

\* lines 414-432 for the current claim: the slice, _judge_sources_for_claim,
\* the per-claim entry and the new urls of flat
Judge ==
    /\ pc = "rt_loop"
    /\ ci <= Len(plan.claims)
    /\ qi > Len(QueriesOfClaim(ci))
    /\ LET cands == Candidates(HitsBefore(qi, hits_all))
           c == plan.claims[ci]
           Finish(res, log, second) ==
               LET kept == Kept(cands, res[1])
                   merged == AddKept(kept, merged_urls, flat)
               IN /\ keep_idx' = res[1]
                  /\ note' = res[2]
                  /\ per_claim' = AppendEntry(per_claim, ClaimEntry(c, kept, res[2]))
                  /\ merged_urls' = merged[1]
                  /\ flat' = merged[2]
                  /\ hits_all' = cands
                  /\ run2' = second
                  /\ ci' = ci + 1
                  /\ qi' = 1
                  /\ calls' = log
                  /\ UNCHANGED <<pc, err>>
       IN IF NoCandidates(cands)
          THEN Finish(<<<<>>, "no candidates">>, calls, Judge2(JudgeError))
          ELSE IF ~HasKey
          THEN \* line 356: _openai() raises
               /\ pc' = "raised"
               /\ err' = "RuntimeError"
               /\ UNCHANGED <<rtv, calls>>
          ELSE \E r \in JudgeResponses :
                  Finish(JudgeResult(cands, r),
                         calls \o <<Call("client", ci, 0, "ok"), Call("judge", ci, 0, Res(r))>>,
                         Judge2(JudgeResponse2(r)))
    /\ UNCHANGED <<cfg, ext, fqv, country, claims, plan, bundle>>

\* a faulty variant of LoopDone: the loop may be left at any claim
LoopDoneEarly(i, cl) == TRUE

\* line 403: the for loop over plan["claims"] ends after the last claim
LoopDone(i, cl) == i > Len(cl)

\* lines 434-436: sort flat and return the bundle: to the caller, or to
\* verify_claim (verifier.py line 54)
Merge ==
    /\ pc = "rt_loop"
    /\ LoopDone(ci, plan.claims)
    /\ flat' = SortFlat(flat)
    /\ bundle' = [per_claim |-> per_claim, flat |-> Take(flat', k)]
    /\ pc' = IF entry = "verify_claim" THEN "vc_prompt" ELSE "done"
    /\ UNCHANGED <<cfg, ext, fqv, ci, qi, hits_all, keep_idx, note, per_claim, merged_urls,
                   run2, err, country, claims, plan, calls>>

\* line 247 returns the plan: to the caller of plan_search, or to
\* google_search (line 442), which calls run_trusty_retrieval (line 443)
PlanSearchReturn ==
    /\ pc = "ps_return"
    /\ pc' = IF entry = "plan_search" THEN "done" ELSE "rt_entry"
    /\ UNCHANGED <<cfg, ext, fqv, rtv, err, country, claims, plan, bundle, calls>>

-----------------------------------------------------------------------------
(* Specifications *)

\* the plans a caller passes to run_trusty_retrieval directly
PlanClaim(id, text) == [id |-> id, claim |-> text, type |-> "explicit"]

Plans ==
    { [country |-> "", claims |-> <<>>],
      [country |-> "India", claims |-> <<PlanClaim("A", <<"x">>)>>],
      [country |-> "Unknown",
       claims |-> <<PlanClaim("B", <<"y">>), PlanClaim("A", <<"x">>), PlanClaim("C", <<"x">>)>>] }

InitLocals ==
    /\ err = ""
    /\ country = ""
    /\ claims = ClaimsNone
    /\ raw = <<>>
    /\ queries_by_claim = <<>>
    /\ ci = 0
    /\ qi = 0
    /\ hits_all = <<>>
    /\ keep_idx = <<>>
    /\ note = ""
    /\ per_claim = <<>>
    /\ merged_urls = {}
    /\ flat = <<>>
    /\ run2 = NoRun2
    /\ bundle = NoBundle
    /\ calls = <<>>

\* no helper is invoked directly
InitExt ==
    /\ arg = <<>>
    /\ retval = <<>>
    /\ cache = <<>>
    /\ now = 0
    /\ prompts = <<>>

\* google_search(user_text, k): plan_search, then run_trusty_retrieval
Init ==
    /\ entry = "google_search"
    /\ fault = NoFault
    /\ pc = "ps_openai"
    /\ openai_key \in BOOLEAN
    /\ tavily_key \in BOOLEAN
    /\ k \in 0..MaxK
    /\ plan = NoPlan
    /\ InitLocals
    /\ InitExt

\* plan_search(user_text)
InitPlan ==
    /\ entry = "plan_search"
    /\ fault = NoFault
    /\ pc = "ps_openai"
    /\ openai_key \in BOOLEAN
    /\ tavily_key = TRUE
    /\ k = 0
    /\ plan = NoPlan
    /\ InitLocals
    /\ InitExt

\* run_trusty_retrieval(plan, k)
InitRetrieval ==
    /\ entry = "run_trusty_retrieval"
    /\ fault = NoFault
    /\ pc = "rt_entry"
    /\ openai_key \in BOOLEAN
    /\ tavily_key \in BOOLEAN
    /\ k \in 0..MaxK
    /\ plan \in Plans
    /\ InitLocals
    /\ InitExt

NextPlan ==
    \/ PlanSearchOpenai
    \/ PlanSearchExtract
    \/ PlanSearchReview
    \/ PlanSearchNormalize
    \/ PlanSearchReturn

NextRetrieval ==
    \/ RunEntry
    \/ FrameOpenai
    \/ FrameCall
    \/ FrameReview
    \/ FrameNormalize
    \/ Fetch
    \/ Judge
    \/ Merge

Next == NextPlan \/ NextRetrieval

Spec == Init /\ [][Next]_vars
SpecPlan == InitPlan /\ [][NextPlan]_vars
SpecRetrieval == InitRetrieval /\ [][NextRetrieval]_vars

-----------------------------------------------------------------------------
(* Two runs of run_trusty_retrieval on the same plan, side by side: the     *)
(* second gets the responses of the first, but the provider calls or the   *)
(* judge call of the claim at index fault.ci fail.                         *)

Faults(n) ==
    {[ci |-> i, op |-> "provider", kind |-> kd] : i \in 1..n, kd \in {"error", "http"}}
    \cup {[ci |-> i, op |-> "judge", kind |-> kd] : i \in 1..n, kd \in {"error", "badjson"}}

InitPair ==
    /\ entry = "run_trusty_retrieval"
    /\ pc = "rt_entry"
    /\ openai_key = TRUE
    /\ tavily_key = TRUE
    /\ k = MaxK
    /\ plan \in Plans
    /\ fault \in Faults(Len(plan.claims))
    /\ InitLocals
    /\ InitExt

SpecPair == InitPair /\ [][NextRetrieval]_vars

-----------------------------------------------------------------------------
(* _frame_queries called on its own *)

\* _frame_queries(country, claims): `plan` holds the two arguments
InitFrame ==
    /\ entry = "_frame_queries"
    /\ fault = NoFault
    /\ pc = "fq_openai"
    /\ openai_key \in BOOLEAN
    /\ tavily_key = FALSE
    /\ k = 0
    /\ plan \in Plans
    /\ InitLocals
    /\ InitExt

NextFrame ==
    \/ FrameOpenai
    \/ FrameCall
    \/ FrameReview
    \/ FrameNormalize

SpecFrame == InitFrame /\ [][NextFrame]_vars

-----------------------------------------------------------------------------
(* _trust_score called on its own *)

\* domains handed to _trust_score: the domains of the lists, domains under
\* the government suffixes (some of them on a list too), look-alikes, mixed
\* case, and the empty string _domain returns for what is no url
TrustDomains ==
    INDIA_TIER2 \cup GLOBAL_TIER1 \cup INTL_ORG_ACAD \cup FACTCHECK_GLOBAL \cup WEAK_OR_OPEN
    \cup { <<"cdc", "gov">>, <<"CDC", "GOV">>, <<"gov">>, <<"india", "gov", "in">>,
           <<"gov", "in">>, <<"bihar", "nic", "in">>, <<"nic", "in">>,
           <<"sansad", "parliament", "in">>, <<"parliament", "in">>,
           <<"main", "supremecourt", "nic", "in">>, <<"supremecourt", "nic", "in">>,
           <<"reddit", "com", "gov">>, <<"wordpress", "com", "nic", "in">>,
           <<"who", "int", "gov", "in">>,
           <<"BBC", "COM">>, <<"Who", "int">>, <<"news", "bbc", "com">>,
           <<"en", "wikipedia", "org">>, <<"notwikipedia", "org">>, <<"me", "blogspot", "com">>,
           <<"example", "com">>, <<"govt", "in">>, <<"notgov">>, <<>> }

TrustCountries == {"India", "india", "INDIA", "Unknown", "USA", ""}

\* _trust_score(d, country)
InitTrust ==
    /\ entry = "_trust_score"
    /\ fault = NoFault
    /\ pc = "ts_call"
    /\ openai_key = FALSE
    /\ tavily_key = FALSE
    /\ k = 0
    /\ plan = NoPlan
    /\ InitLocals
    /\ arg \in {<<d, c>> : d \in TrustDomains, c \in TrustCountries}
    /\ retval = <<>>
    /\ cache = <<>>
    /\ now = 0
    /\ prompts = <<>>

\* lines 133-147: the call and its return
TrustScoreCall ==
    /\ pc = "ts_call"
    /\ retval' = _trust_score(arg[1], arg[2])
    /\ pc' = "done"
    /\ UNCHANGED <<cfg, arg, cache, now, prompts, err, country, claims, plan, fqv, rtv, bundle,
                   calls>>

NextTrust == TrustScoreCall

SpecTrust == InitTrust /\ [][NextTrust]_vars


-----------------------------------------------------------------------------
(* reputation.py: analyze_domain *)

TTL_SECONDS == 30 * 24 * 3600

\* line 91, _domain_from_url (lines 24-26) on the inputs of the model
_domain_from_url(url) ==
    CASE url = "https://bbc.com/d" -> "bbc.com"
      [] url = "BBC.com" -> "bbc.com"
      [] url = "https://pti.in/e" -> "pti.in"
      [] OTHER -> "."

RepInputs == {"https://bbc.com/d", "BBC.com", "https://pti.in/e"}

\* a record of the cache; ts = 0 also stands for a record without "ts"
\* (line 94: .get("ts", 0))
CacheRecord(ts) == [credibility |-> "High", bias |-> "Unknown", ts |-> ts]

\* lines 12-17: the dict _load_cache returns; {} when the file is missing
CacheFiles ==
    UNION {[ds -> {CacheRecord(0), CacheRecord(1)}] : ds \in SUBSET {"bbc.com", "pti.in"}}

\* readings of the clock around the time-to-live of a record written at 0 or 1
Times == {1, 2, TTL_SECONDS - 1, TTL_SECONDS, TTL_SECONDS + 1}

\* line 94: the cache holds a record of the domain younger than the TTL
CacheHit(c, domain, t) == domain \in DOMAIN c /\ t - c[domain].ts < TTL_SECONDS

\* lines 91-95: the lookup; a hit returns the cached record
AnalyzeDomainLookup ==
    /\ pc = "ad_lookup"
    /\ LET domain == _domain_from_url(arg)
       IN IF CacheHit(cache, domain, now)
          THEN /\ retval' = cache[domain]
               /\ pc' = "done"
          ELSE /\ retval' = retval
               /\ pc' = "ad_signals"
    /\ UNCHANGED <<cfg, arg, cache, now, prompts, err, country, claims, plan, fqv, rtv, bundle,
                   calls>>

\* line 97, _fetch_signals (lines 59-78): the first _tavily_search(q,
\* max_results=5) of line 72 passes a keyword that _tavily_search(query,
\* limit) of search.py line 301 does not take: TypeError, before any request
\* to the provider; lines 98-146 are not reached
AnalyzeDomainFetchSignals ==
    /\ pc = "ad_signals"
    /\ pc' = "raised"
    /\ err' = "TypeError"
    /\ UNCHANGED <<cfg, ext, country, claims, plan, fqv, rtv, bundle, calls>>

\* the caller calls analyze_domain again, at once or later
AnalyzeDomainAgain ==
    /\ entry = "analyze_domain"
    /\ pc \in {"done", "raised"}
    /\ Len(calls) < MaxAnalyzeCalls
    /\ arg' \in RepInputs
    /\ now' \in {t \in Times : t >= now}
    /\ retval' = <<>>
    /\ err' = ""
    /\ pc' = "ad_lookup"
    /\ calls' = Append(calls, Call("analyze_domain", 0, 0, "ok"))
    /\ UNCHANGED <<cfg, cache, prompts, country, claims, plan, fqv, rtv, bundle>>

\* analyze_domain(domain_or_url) with some cache file at some time
InitReputation ==
    /\ entry = "analyze_domain"
    /\ fault = NoFault
    /\ pc = "ad_lookup"
    /\ openai_key = TRUE
    /\ tavily_key = TRUE
    /\ k = 0
    /\ plan = NoPlan
    /\ InitLocals
    /\ arg \in RepInputs
    /\ retval = <<>>
    /\ cache \in CacheFiles
    /\ now \in Times
    /\ prompts = <<>>

NextReputation ==
    \/ AnalyzeDomainLookup
    \/ AnalyzeDomainFetchSignals
    \/ AnalyzeDomainAgain

SpecReputation == InitReputation /\ [][NextReputation]_vars

-----------------------------------------------------------------------------
(* verifier.py: verify_claim *)

VERIFY_K == 6

\* the texts of a user: only their length matters here
UserTexts == {[i \in 1..n |-> "x"] : n \in 0..MaxTextLen}

\* lines 68-76: the user message of the verdict prompt holds text as it is
VerdictPrompt(text) == [op |-> "verdict", text |-> text]

\* lines 56-98: the verdict prompt, the verdict call inside its try block
\* and the returned dict
VerifyClaimPrompt ==
    /\ pc = "vc_prompt"
    /\ prompts' = Append(prompts, VerdictPrompt(arg))
    /\ \E res \in {"ok", "failed"} :
          /\ calls' = Append(calls, Call("verdict", 0, 0, res))
          /\ retval' = [verdict_md |-> IF res = "ok" THEN "verdict" ELSE "Error verifying claim",
                        per_claim |-> bundle.per_claim, flat_sources |-> bundle.flat]
    /\ pc' = "done"
    /\ UNCHANGED <<cfg, arg, cache, now, err, country, claims, plan, fqv, rtv, bundle>>

\* verify_claim(text): plan_search(text), run_trusty_retrieval(plan, k=6),
\* then the verdict
InitVerify ==
    /\ entry = "verify_claim"
    /\ fault = NoFault
    /\ pc = "ps_openai"
    /\ openai_key \in BOOLEAN
    /\ tavily_key \in BOOLEAN
    /\ k = VERIFY_K
    /\ plan = NoPlan
    /\ InitLocals
    /\ arg \in UserTexts
    /\ retval = <<>>
    /\ cache = <<>>
    /\ now = 0
    /\ prompts = <<>>

NextVerify == Next \/ VerifyClaimPrompt

SpecVerify == InitVerify /\ [][NextVerify]_vars

-----------------------------------------------------------------------------
(* Properties *)

Last(s) == s[Len(s)]

ReasoningOps == {"extract", "claims_review", "frame", "queries_review", "judge"}

\* every call to the reasoning service made so far failed
AllReasoningCallsFailed ==
    \A i \in 1..Len(calls) : calls[i].op \in ReasoningOps => calls[i].res = "failed"

HasCall(op) == \E i \in 1..Len(calls) : calls[i].op = op

\* the claim at index ci - 1 has just been judged: hits_all holds its
\* candidates, keep_idx and note what _judge_sources_for_claim returned
JustJudged == pc = "rt_loop" /\ ci > 1 /\ qi = 1

\* the kept sources of all claims, in claim order
RECURSIVE AllKeptFrom(_)
AllKeptFrom(pcl) ==
    IF pcl = <<>> THEN <<>> ELSE Head(pcl).sources \o AllKeptFrom(Tail(pcl))

AllKept == AllKeptFrom(bundle.per_claim)

\* C1: a run of plan_search followed by run_trusty_retrieval raises no error
\* to the caller, whatever credentials are missing and whatever the services
\* answer.
C1_NoErrorRaised == pc # "raised"

\* C2: when every call to the reasoning service fails (its client can be
\* built, each request errors or returns content that does not parse), no error is
\* raised, the run goes on until DONE, the plan has no claims and the bundle
\* has per_claim = [] and flat = [].
C2_UnreachableServiceReachesDone ==
    (openai_key /\ AllReasoningCallsFailed) =>
        /\ pc # "raised"
        /\ pc # "done" => ENABLED Next
        /\ plan.claims = <<>>
        /\ pc = "done" => bundle = [per_claim |-> <<>>, flat |-> <<>>]

C2_Witness ==
    /\ pc = "done"
    /\ openai_key
    /\ AllReasoningCallsFailed
    /\ HasCall("extract")
    /\ HasCall("frame")

\* C3: a response of the reasoning service that is JSON of a malformed shape
\* is never surfaced to the caller as a raised error (the errors of the model
\* other than RuntimeError come from malformed shapes only).
C3_MalformedShapeNotRaised ==
    pc = "raised" /\ err \in {"AttributeError", "TypeError"}
        => Last(calls).op \notin ReasoningOps

\* C4: the claim ids of the plan returned by plan_search are pairwise
\* distinct.
C4_PlanIdsDistinct ==
    \A i, j \in 1..Len(plan.claims) :
        i # j => plan.claims[i].id # plan.claims[j].id

\* C5: the plan returned by plan_search holds at most MAX_CLAIMS claims and
\* no claim with empty text.
C5_PlanBoundedNoEmptyText ==
    /\ Len(plan.claims) <= MAX_CLAIMS
    /\ \A i \in 1..Len(plan.claims) : plan.claims[i].claim # <<>>

\* the indices (0-based) of the candidates of trust >= 1
StrongSet == {i \in 0..(Len(hits_all) - 1) : hits_all[i + 1].trust >= 1}

JudgeCallFailed ==
    /\ calls # <<>>
    /\ Last(calls).op = "judge"
    /\ Last(calls).ci = ci - 1
    /\ Last(calls).res = "failed"

\* C6: when the judge call fails, _judge_sources_for_claim returns the
\* indices of the candidates of trust >= 1, ascending, cut to the first 3,
\* with the note "fallback: kept highest trust".
C6_FallbackKeepsStrongest ==
    (JustJudged /\ JudgeCallFailed) =>
        /\ note = "fallback: kept highest trust"
        /\ Len(keep_idx) = (IF Cardinality(StrongSet) < 3 THEN Cardinality(StrongSet) ELSE 3)
        /\ \A j \in 1..Len(keep_idx) : keep_idx[j] \in StrongSet
        /\ \A j \in 1..(Len(keep_idx) - 1) : keep_idx[j] < keep_idx[j + 1]
        /\ \A i \in StrongSet :
               (\A j \in 1..Len(keep_idx) : keep_idx[j] # i)
                   => \A j \in 1..Len(keep_idx) : keep_idx[j] < i

C6_Witness ==
    /\ JustJudged
    /\ JudgeCallFailed
    /\ Cardinality(StrongSet) > 3
    /\ \E i \in 0..(Len(hits_all) - 1) : i \notin StrongSet

\* C7: with an empty candidate list _judge_sources_for_claim returns
\* ([], "no candidates"), and neither a client is built nor the reasoning
\* service called for that claim.
C7_NoCandidatesNoCall ==
    (JustJudged /\ hits_all = <<>>) =>
        /\ keep_idx = <<>>
        /\ note = "no candidates"
        /\ \A i \in 1..Len(calls) :
               calls[i].ci = ci - 1 => calls[i].op \notin {"client", "judge"}

C7_Witness ==
    /\ JustJudged
    /\ hits_all = <<>>
    /\ \E i \in 1..Len(calls) : calls[i].ci = ci - 1 /\ calls[i].op = "provider"
    /\ \E i \in 1..Len(calls) : calls[i].op = "judge"

\* the first source of per_claim kept with url u, in claim order
FirstKept(u) ==
    LET cs == {c \in 1..Len(bundle.per_claim) :
                   \E i \in 1..Len(bundle.per_claim[c].sources) :
                       bundle.per_claim[c].sources[i].link = u}
        c0 == CHOOSE c \in cs : \A d \in cs : c <= d
        src == bundle.per_claim[c0].sources
        i0 == CHOOSE i \in 1..Len(src) :
                  src[i].link = u /\ \A j \in 1..(i - 1) : src[j].link # u
    IN src[i0]

\* C8: flat holds each url at most once, and a url kept by several claims is
\* represented by the hit of the first claim, in claim order, that kept it.
C8_FlatUniqueFirstWins ==
    pc = "done" =>
        /\ \A i, j \in 1..Len(bundle.flat) :
               i # j => bundle.flat[i].link # bundle.flat[j].link
        /\ \A i \in 1..Len(bundle.flat) :
               bundle.flat[i] = FirstKept(bundle.flat[i].link)

C8_Witness ==
    /\ pc = "done"
    /\ \E i \in 1..Len(bundle.flat) :
          \E c, d \in 1..Len(bundle.per_claim) :
             /\ c < d
             /\ \E a \in 1..Len(bundle.per_claim[c].sources) :
                   bundle.per_claim[c].sources[a] = bundle.flat[i]
             /\ \E b \in 1..Len(bundle.per_claim[d].sources) :
                   /\ bundle.per_claim[d].sources[b].link = bundle.flat[i].link
                   /\ bundle.per_claim[d].sources[b] # bundle.flat[i]

\* source a does not come after source b in the order of flat: trust
\* descending, then domain ascending
RankedNotAfter(a, b) ==
    \/ a.trust > b.trust
    \/ a.trust = b.trust /\ ~DomainLess(b.domain, a.domain)

FlatUrls == {bundle.flat[i].link : i \in 1..Len(bundle.flat)}

\* C9: flat has at most k entries, is ordered by trust descending and domain
\* ascending, holds kept sources only, and no kept source whose url is left
\* out of flat ranks strictly before an entry of flat.
C9_FlatIsTopK ==
    pc = "done" =>
        /\ Len(bundle.flat) <= k
        /\ \A i, j \in 1..Len(bundle.flat) :
               i < j => RankedNotAfter(bundle.flat[i], bundle.flat[j])
        /\ \A i \in 1..Len(bundle.flat) :
               \E j \in 1..Len(AllKept) : AllKept[j] = bundle.flat[i]
        /\ \A j \in 1..Len(AllKept) :
               AllKept[j].link \notin FlatUrls
                   => \A i \in 1..Len(bundle.flat) :
                          RankedNotAfter(bundle.flat[i], AllKept[j])

C9_Witness ==
    /\ pc = "done"
    /\ k >= 2
    /\ Len(bundle.flat) = k
    /\ bundle.flat[1].trust > bundle.flat[2].trust
    /\ \E j \in 1..Len(AllKept) : AllKept[j].link \notin FlatUrls

\* C10: the flat merge (url dedup, first occurrence wins, then the sort) is
\* idempotent: the list the run builds from the kept sources is the merge of
\* these sources, and merging that list again yields the same list.
C10_FlatMergeIdempotent ==
    pc = "done" =>
        /\ FlatMerge(AllKept) = flat
        /\ FlatMerge(flat) = flat

C10_Witness ==
    /\ pc = "done"
    /\ Len(flat) >= 3
    /\ Len(AllKept) > Len(flat)
    /\ \E i \in 1..(Len(flat) - 1) :
          /\ flat[i].trust = flat[i + 1].trust
          /\ flat[i].domain = flat[i + 1].domain

\* C11: in a returned bundle every per-claim entry without sources has a
\* non-empty note; without a credential for the evidence provider every claim
\* of the plan has an entry with no sources and a non-empty note.
C11_EmptySourcesHaveNote ==
    (pc = "done" /\ entry # "plan_search") =>
        /\ \A i \in 1..Len(bundle.per_claim) :
               bundle.per_claim[i].sources = <<>> => bundle.per_claim[i].note # ""
        /\ ~tavily_key =>
               /\ Len(bundle.per_claim) = Len(plan.claims)
               /\ \A i \in 1..Len(bundle.per_claim) :
                      /\ bundle.per_claim[i].sources = <<>>
                      /\ bundle.per_claim[i].note # ""

\* the judge answered with no usable index and no note for one claim, and
\* kept a source for another
C11_Witness ==
    /\ pc = "done"
    /\ \E i, j \in 1..Len(bundle.per_claim) :
          /\ bundle.per_claim[i].sources = <<>>
          /\ bundle.per_claim[i].note = "no trustable source found"
          /\ bundle.per_claim[j].sources # <<>>

\* the rules of the classifier on the lower-case domain d
GovRule(d) ==
    \E suf \in {<<"gov">>, <<"gov", "in">>, <<"nic", "in">>, <<"parliament", "in">>,
                 <<"supremecourt", "nic", "in">>} :
        Len(d) > Len(suf) /\ SubSeq(d, Len(d) - Len(suf) + 1, Len(d)) = suf

JurisdictionRule(d, c) == c \in {"India", "india", "INDIA"} /\ d \in INDIA_TIER2

AllowlistRule(d) == d \in INTL_ORG_ACAD \cup GLOBAL_TIER1 \cup FACTCHECK_GLOBAL

\* C12: _trust_score returns a tier of 0..3, the tier of the first rule that
\* matches in the order government suffix (3), jurisdiction list under a
\* matching jurisdiction (2), international / global allowlists (1), anything
\* else (0); a government domain gets 3 also when a list holds it.
C12_TrustFirstMatchingRule ==
    (entry = "_trust_score" /\ pc = "done") =>
        LET d == LowerDomain(arg[1])
            c == arg[2]
            tier == retval[1]
        IN /\ tier \in 0..3
           /\ GovRule(d) => tier = 3
           /\ (~GovRule(d) /\ JurisdictionRule(d, c)) => tier = 2
           /\ (~GovRule(d) /\ ~JurisdictionRule(d, c) /\ AllowlistRule(d)) => tier = 1
           /\ (~GovRule(d) /\ ~JurisdictionRule(d, c) /\ ~AllowlistRule(d)) => tier = 0

\* a domain under a government suffix that the Indian list holds too
C12_Witness ==
    /\ entry = "_trust_score"
    /\ pc = "done"
    /\ arg = <<<<"pib", "gov", "in">>, "India">>
    /\ retval[1] = 3

\* the number of words of text s: the maximal runs of characters that are no
\* white space
WordCount(s) ==
    Cardinality({i \in 1..Len(s) : ~IsWs(s[i]) /\ (i = 1 \/ IsWs(s[i - 1]))})

\* the same text up to the case of its letters
SameIgnoringCase(a, b) ==
    /\ Len(a) = Len(b)
    /\ \A i \in 1..Len(a) :
           \/ a[i] = b[i]
           \/ {a[i], b[i]} \in {{"a", "A"}, {"b", "B"}}

FrameReturned == entry = "_frame_queries" /\ pc = "done"

\* C13: the query list _frame_queries returns for a claim has at most
\* MAX_QUERIES_PER_CLAIM queries, each of them non-empty and of at most
\* QUERY_MAX_WORDS words, and no two of them equal up to case.
C13_QueriesCappedAndDistinct ==
    FrameReturned =>
        \A id \in DOMAIN queries_by_claim :
            LET qs == queries_by_claim[id]
            IN /\ Len(qs) <= MAX_QUERIES_PER_CLAIM
               /\ \A i \in 1..Len(qs) :
                      /\ qs[i] # <<>>
                      /\ WordCount(qs[i]) <= QUERY_MAX_WORDS
               /\ \A i, j \in 1..Len(qs) : i # j => ~SameIgnoringCase(qs[i], qs[j])

\* a claim got a full list with a query cut to the word cap, another claim
\* a list that lost a duplicate
C13_Witness ==
    /\ FrameReturned
    /\ \E id \in DOMAIN queries_by_claim :
          /\ Len(queries_by_claim[id]) = MAX_QUERIES_PER_CLAIM
          /\ WordCount(queries_by_claim[id][1]) = QUERY_MAX_WORDS
    /\ \E id \in DOMAIN queries_by_claim :
          queries_by_claim[id] = <<<<"A">>, <<"a", " ", "b">>>>

\* C14: the candidate list handed to the judge for a claim holds no two hits
\* with the same url.
C14_CandidatesUniqueByUrl ==
    JustJudged =>
        \A i, j \in 1..Len(hits_all) : i # j => hits_all[i].link # hits_all[j].link

\* C15: _tavily_search never raises: no run ends with an error raised by the
\* handling of a provider response.
C15_TavilyNeverRaises ==
    (pc = "raised" /\ calls # <<>>) => Last(calls).op # "provider"

\* C16: when the provider calls or the judge call of one claim fail in a
\* second run that is otherwise given the responses of the first, the second
\* run returns a bundle too and the per-claim entry of every other claim is
\* the same in both runs.
C16_FailureStaysWithItsClaim ==
    (pc = "done" /\ fault.ci > 0) =>
        /\ run2.err = ""
        /\ Len(run2.per_claim) = Len(bundle.per_claim)
        /\ \A i \in 1..Len(bundle.per_claim) :
               i # fault.ci => run2.per_claim[i] = bundle.per_claim[i]

\* the failure took the sources of the first claim and the next claim has
\* sources
C16_Witness ==
    /\ pc = "done"
    /\ fault.ci = 1
    /\ Len(bundle.per_claim) = 3
    /\ bundle.per_claim[1].sources # <<>>
    /\ run2.per_claim[1].sources = <<>>
    /\ bundle.per_claim[2].sources # <<>>

\* C17: per_claim of the returned bundle has one entry per claim of the plan,
\* in the order of the plan, each with the id and the text of its claim.
C17_PerClaimFollowsPlan ==
    (pc = "done" /\ entry # "plan_search") =>
        /\ Len(bundle.per_claim) = Len(plan.claims)
        /\ \A i \in 1..Len(plan.claims) :
               /\ bundle.per_claim[i].id = plan.claims[i].id
               /\ bundle.per_claim[i].claim = plan.claims[i].claim

\* three claims with three outcomes: sources from the fallback after a
\* failed judge call, sources the judge chose, no candidates
C17_Witness ==
    /\ pc = "done"
    /\ Len(bundle.per_claim) = 3
    /\ bundle.per_claim[1].note = "fallback: kept highest trust"
    /\ bundle.per_claim[2].sources # <<>>
    /\ bundle.per_claim[2].note = "ok"
    /\ bundle.per_claim[3].note = "no candidates"

\* a step of the review pass of plan_search whose call failed
ClaimsReviewFailed ==
    /\ pc = "ps_review"
    /\ calls' # calls
    /\ Last(calls').op = "claims_review"
    /\ Last(calls').res = "failed"

\* C18: a failed review pass of plan_search raises no error and leaves the
\* claim list and the jurisdiction of the extract pass as they are, so that
\* the plan is built from them as without a review.
C18_ReviewFailureKeepsExtract ==
    [][ClaimsReviewFailed =>
          /\ claims' = claims
          /\ country' = country
          /\ err' = err
          /\ pc' = "ps_normalize"]_vars

\* the plan returned after a failed review holds the two claims and the
\* jurisdiction of the extract pass
C18_Witness ==
    /\ entry = "plan_search"
    /\ pc = "done"
    /\ Last(calls).op = "claims_review"
    /\ Last(calls).res = "failed"
    /\ Len(plan.claims) = 2
    /\ plan.country = "India"

\* the frame call of _frame_queries failed
FrameCallFailed ==
    \E i \in 1..Len(calls) : calls[i].op = "frame" /\ calls[i].res = "failed"

\* a step of the review pass of _frame_queries whose call failed
QueriesReviewFailed ==
    /\ pc = "fq_review"
    /\ calls' # calls
    /\ Last(calls').op = "queries_review"
    /\ Last(calls').res = "failed"

\* the step that returns from _frame_queries
FrameReturns == entry = "_frame_queries" /\ pc = "fq_normalize" /\ pc' = "done"

\* C19: after a failed frame call _frame_queries raises no error and returns
\* an empty query list for every claim; a failed review call leaves the
\* queries of the frame pass as they are, and the function returns their
\* normalization.
C19_FramePassesDegrade ==
    /\ [](FrameCallFailed =>
            /\ pc # "raised"
            /\ FrameReturned =>
                   \A i \in 1..Len(plan.claims) :
                       /\ plan.claims[i].id \in DOMAIN queries_by_claim
                       /\ queries_by_claim[plan.claims[i].id] = <<>>)
    /\ [][/\ QueriesReviewFailed => (raw' = raw /\ err' = err /\ pc' = "fq_normalize")
          /\ FrameReturns =>
                 \A i \in 1..Len(plan.claims) :
                     queries_by_claim'[plan.claims[i].id] = QueriesFor(raw, plan.claims[i].id)]_vars

\* _frame_queries returned a full query list after a failed review call
C19_Witness ==
    /\ FrameReturned
    /\ Last(calls).op = "queries_review"
    /\ Last(calls).res = "failed"
    /\ \E id \in DOMAIN queries_by_claim :
          Len(queries_by_claim[id]) = MAX_QUERIES_PER_CLAIM

\* C20: a call of analyze_domain ends by returning a record that the cache
\* holds for the domain and that is younger than the time-to-live: the
\* cached one on a hit, a fresh one written before the return on a miss, so
\* that a call repeated at once is a hit.
C20_CacheServesOrIsWritten ==
    (entry = "analyze_domain" /\ pc \notin {"ad_lookup", "ad_signals"}) =>
        /\ pc = "done"
        /\ CacheHit(cache, _domain_from_url(arg), now)
        /\ retval = cache[_domain_from_url(arg)]

\* C21: the user text placed in a prompt of the reasoning service (the
\* extract prompt of plan_search, the verdict prompt of verify_claim) is never
\* longer than the fixed cap.
C21_PromptTextCapped ==
    \A i \in 1..Len(prompts) : Len(prompts[i].text) <= PromptTextCap

\* the stage of an external call: extract, claim review, query frame, query
\* review, then the retrieval loop
StageRank(op) ==
    CASE op = "extract" -> 1
      [] op = "claims_review" -> 2
      [] op = "frame" -> 3
      [] op = "queries_review" -> 4
      [] OTHER -> 5

\* the external calls made so far, without the constructions of a client
ExternalCalls == SelectSeq(calls, LAMBDA c : c.op # "client")

\* call a may come before call b in one run
MayPrecede(a, b) ==
    /\ StageRank(a.op) <= StageRank(b.op)
    /\ StageRank(a.op) = 5 /\ StageRank(b.op) = 5 =>
          /\ a.ci <= b.ci
          /\ a.ci = b.ci => a.op = "provider"
          /\ a.ci = b.ci /\ b.op = "provider" => a.qi < b.qi

\* C22: a run is linear: extract, claim review, query frame, query review,
\* then for each claim in turn its provider calls followed by its judge call;
\* the bundle is returned only after every claim of the plan has its entry.
C22_StagesInOrder ==
    /\ \A i, j \in 1..Len(ExternalCalls) :
          i < j => MayPrecede(ExternalCalls[i], ExternalCalls[j])
    /\ bundle # NoBundle =>
          /\ Len(bundle.per_claim) = Len(plan.claims)
          /\ ci = Len(plan.claims) + 1

\* a returned run with every stage called and two claims searched and judged
C22_Witness ==
    /\ pc = "done"
    /\ bundle # NoBundle
    /\ \A op \in {"extract", "claims_review", "frame", "queries_review"} : HasCall(op)
    /\ \A c \in 1..2 : \A op \in {"provider", "judge"} :
          \E i \in 1..Len(calls) : calls[i].op = op /\ calls[i].ci = c

\* the number of external calls of kind op for claim c and query q
CallCount(op, c, q) ==
    Cardinality({i \in 1..Len(calls) :
                    calls[i].op = op /\ calls[i].ci = c /\ calls[i].qi = q})

\* the number of provider calls for claim c
ProviderCalls(c) ==
    Cardinality({i \in 1..Len(calls) : calls[i].op = "provider" /\ calls[i].ci = c})

\* C23: no external call is retried: a run makes at most one extract, one
\* claim-review, one query-frame and one query-review call, at most one judge
\* call per claim and one provider call per (claim, query) pair, so at most
\* MAX_QUERIES_PER_CLAIM provider calls per claim, whether calls fail or not.
C23_NoCallRepeated ==
    /\ \A op \in {"extract", "claims_review", "frame", "queries_review"} :
          CallCount(op, 0, 0) <= 1
    /\ \A c \in 1..MAX_CLAIMS :
          /\ CallCount("judge", c, 0) <= 1
          /\ \A q \in 1..(MAX_QUERIES_PER_CLAIM + 1) : CallCount("provider", c, q) <= 1
          /\ ProviderCalls(c) <= MAX_QUERIES_PER_CLAIM
    /\ \A i \in 1..Len(calls) :
          /\ calls[i].op \in {"provider", "judge"} => calls[i].ci \in 1..MAX_CLAIMS
          /\ calls[i].op = "provider" => calls[i].qi \in 1..MAX_QUERIES_PER_CLAIM

\* a returned run where a claim had MAX_QUERIES_PER_CLAIM provider calls, one
\* of them failed, and the claim-review and the judge call failed as well
C23_Witness ==
    /\ pc = "done"
    /\ bundle # NoBundle
    /\ \E c \in 1..Len(plan.claims) :
          /\ ProviderCalls(c) = MAX_QUERIES_PER_CLAIM
          /\ \E i \in 1..Len(calls) :
                calls[i].op = "provider" /\ calls[i].ci = c /\ calls[i].res = "failed"
    /\ \E i \in 1..Len(calls) : calls[i].op = "claims_review" /\ calls[i].res = "failed"
    /\ \E i \in 1..Len(calls) : calls[i].op = "judge" /\ calls[i].res = "failed"

\* line 394: the jurisdiction of the plan
PlanCountry == IF plan.country = "" THEN "Unknown" ELSE plan.country

\* C24: the candidate list handed to _judge_sources_for_claim holds at most
\* MAX_MERGED_RESULTS hits, each with a non-empty url and with the trust tier
\* and reason _trust_score gives for its domain and the plan's jurisdiction,
\* whatever number of hits the provider returned.
C24_CandidatesCappedAndScored ==
    JustJudged =>
        /\ Len(hits_all) <= MAX_MERGED_RESULTS
        /\ \A i \in 1..Len(hits_all) :
              /\ hits_all[i].link # ""
              /\ hits_all[i].domain = _domain(hits_all[i].link)
              /\ <<hits_all[i].trust, hits_all[i].trust_reason>> =
                     _trust_score(hits_all[i].domain, PlanCountry)

\* the judge was called on a list cut to MAX_MERGED_RESULTS hits of two tiers
C24_Witness ==
    /\ JustJudged
    /\ Len(hits_all) = MAX_MERGED_RESULTS
    /\ Last(calls).op = "judge"
    /\ \E i, j \in 1..Len(hits_all) : hits_all[i].trust # hits_all[j].trust

\* the indices of keep_idx that name a candidate of hits_all, in order
InRangeIdx == SelectSeq(keep_idx, LAMBDA i : 0 <= i /\ i < Len(hits_all))

\* the sources of every per-claim entry so far
SourcesSoFar ==
    UNION {{per_claim[i].sources[j] : j \in 1..Len(per_claim[i].sources)} :
              i \in 1..Len(per_claim)}

\* C25: whatever indices the judge returns, the sources of a claim's entry
\* are its scored candidates at the in-range indices, in the order given and
\* with their fields unchanged: an index out of range selects nothing; every
\* entry of flat, and of the returned bundle, is such a source.
C25_SourcesAreCandidates ==
    /\ JustJudged =>
          LET srcs == Last(per_claim).sources
          IN /\ Len(srcs) = Len(InRangeIdx)
             /\ \A j \in 1..Len(srcs) : srcs[j] = hits_all[InRangeIdx[j] + 1]
    /\ \A i \in 1..Len(flat) : flat[i] \in SourcesSoFar
    /\ \A i \in 1..Len(bundle.flat) : bundle.flat[i] \in SourcesSoFar
    /\ bundle # NoBundle => bundle.per_claim = per_claim

\* the judge returned a negative index, an index past the end and an index
\* in range, and the run went on with the one candidate named
C25_Witness ==
    /\ JustJudged
    /\ Last(calls).op = "judge"
    /\ Len(hits_all) >= 2
    /\ \E j \in 1..Len(keep_idx) : keep_idx[j] < 0
    /\ \E j \in 1..Len(keep_idx) : keep_idx[j] >= Len(hits_all)
    /\ Len(Last(per_claim).sources) = 1
    /\ flat # <<>>

=============================================================================
